---- MODULE Spec2Model ----
(***************************************************************************)
(* A model of VRPSolver (src/vrp_solver.py): the genetic algorithm that    *)
(* solve() runs through DEAP's eaSimple, the fitness evaluation and the    *)
(* route decoder.                                                          *)
(*                                                                         *)
(* Conventions.  Python lists are sequences; a Python index j is position  *)
(* j+1.  A probability is an integer number of percent (0.7 is 70), and a  *)
(* value of random.random() is a number of percent too.  A DEAP Fitness    *)
(* is the tuple of its values, <<>> while it is invalid.  An Individual is *)
(* [perm |-> its list, fit |-> its Fitness].                               *)
(*                                                                         *)
(* Two solver objects, run and twin, receive the same solve() call.  They  *)
(* differ only in what earlier calls left behind: the tournament size      *)
(* registered in the toolbox and the state of the global random generator. *)
(* When their generators are in the same state they draw the same values.  *)
(***************************************************************************)
EXTENDS Integers, Sequences, FiniteSets, TLC

\* ------------------------------------------------------------------ bounds
MaxPop == 2
MaxGen == 2
MaxTourn == 2
MaxLoc == 3
MaxGenes == 6
MaxWork == 6

\* ------------------------------------------------------- program constants
\* tools.mutShuffleIndexes, indpb=0.05
IndPb == 5
\* tools.selTournament, tournsize=3 as _setup_ga registers it
SetupTournsize == 3
\* tools.HallOfFame(1)
HofMaxsize == 1
\* creator.FitnessMin weights=(-1.0, -1.0)
Weights == <<-1, -1>>

\* ------------------------------------------------------------------ inputs
\* Locations on a line through the depot, on both sides of it and one on the
\* depot itself: every distance is a whole number, every route has an even
\* length, and two permutations can have the same total distance with
\* different balance.
AllLocations == << <<1, 0>>, <<2, 0>>, <<-1, 0>>, <<0, 0>> >>
Depot == <<0, 0>>
NumLocations == 0..MaxLoc
Vehicles == {1, 2}
Locations(n) == SubSeq(AllLocations, 1, n)
Instances ==
  { [locations |-> Locations(n), depot |-> Depot, num_vehicles |-> v] :
      n \in NumLocations, v \in Vehicles }

\* The values random.random() takes in the model, in percent.
RandomGrid == {0, 10, 99}

\* ----------------------------------------------------------------- helpers
Abs(x) == IF x < 0 THEN -x ELSE x

RECURSIVE SumSeq(_)
SumSeq(s) == IF s = <<>> THEN 0 ELSE Head(s) + SumSeq(Tail(s))

Range(s) == { s[k] : k \in DOMAIN s }

\* A draw the generator was not asked for reads as 0.
At(d, k) == IF k \in DOMAIN d THEN d[k] ELSE 0

\* range(start, stop, step) as the sequence of its values (step >= 1)
RECURSIVE PyRange(_, _, _)
PyRange(start, stop, step) ==
  IF start >= stop THEN <<>> ELSE <<start>> \o PyRange(start + step, stop, step)

\* The whole number whose square is n (n is a perfect square here).
ExactSqrt(n) == CHOOSE r \in 0..n : r * r = n

\* np.linalg.norm(np.array(q) - np.array(p))
norm(p, q) ==
  ExactSqrt((q[1] - p[1]) * (q[1] - p[1]) + (q[2] - p[2]) * (q[2] - p[2]))

\* np.std(distances): the population standard deviation
\*   sqrt(mean((d - mean(d))^2)) = sqrt(n * sum(d^2) - sum(d)^2) / n
std(distances) ==
  LET n == Len(distances)
      s == SumSeq(distances)
      q == SumSeq([k \in 1..n |-> distances[k] * distances[k]])
      r == ExactSqrt(n * q - s * s)
  IN CHOOSE x \in 0..r : x * n = r

\* ----------------------------------------------------------- route decoder
\* A decoder that assigns by the index value instead of the position.
vehicle_route_by_value(inst, individual, i) ==
  LET js == SelectSeq([k \in 1..Len(individual) |-> k - 1],
                      LAMBDA j : individual[j + 1] % inst.num_vehicles = i)
  IN <<inst.depot>>
       \o [k \in 1..Len(js) |-> inst.locations[individual[js[k] + 1] + 1]]
       \o <<inst.depot>>

\* [self.depot] + [self.locations[individual[j]]
\*    for j in range(i, len(individual), self.num_vehicles)] + [self.depot]
vehicle_route(inst, individual, i) ==
  LET js == PyRange(i, Len(individual), inst.num_vehicles)
  IN <<inst.depot>>
       \o [k \in 1..Len(js) |-> inst.locations[individual[js[k] + 1] + 1]]
       \o <<inst.depot>>

get_vehicle_routes(inst, individual) ==
  [v \in 1..inst.num_vehicles |-> vehicle_route(inst, individual, v - 1)]

\* ------------------------------------------------------- fitness evaluator
vehicle_distance(route) ==
  SumSeq([k \in 1..(Len(route) - 1) |-> norm(route[k], route[k + 1])])

_evaluate_vrp(inst, individual) ==
  LET distances ==
        [v \in 1..inst.num_vehicles |->
           vehicle_distance(vehicle_route(inst, individual, v - 1))]
  IN <<SumSeq(distances), std(distances)>>

\* ------------------------------------------------------------ DEAP Fitness
\* Fitness.wvalues: the values multiplied by the weights
wvalues(fit) == [k \in DOMAIN fit |-> fit[k] * Weights[k]]

\* Python's tuple comparison a <= b
RECURSIVE TupleLe(_, _)
TupleLe(a, b) ==
  IF a = <<>> THEN TRUE
  ELSE IF b = <<>> THEN FALSE
  ELSE IF Head(a) # Head(b) THEN Head(a) < Head(b)
  ELSE TupleLe(Tail(a), Tail(b))

\* Fitness.__le__ and Fitness.__gt__ (not __le__)
FitnessLe(f, g) == TupleLe(wvalues(f), wvalues(g))
FitnessGt(f, g) == ~FitnessLe(f, g)

\* Fitness.valid
valid(fit) == Len(fit) # 0

\* max(aspirants, key=attrgetter("fitness")): the first of the best
RECURSIVE MaxByFitness(_, _)
MaxByFitness(best, rest) ==
  IF rest = <<>> THEN best
  ELSE MaxByFitness(IF FitnessGt(Head(rest).fit, best.fit) THEN Head(rest) ELSE best,
                    Tail(rest))

\* ----------------------------------------------------------- random module
\* random.randint(a, b) on the raw draw u, for a <= b
randint(a, b, u) == a + (u % (b - a + 1))

\* random.choice(seq) on the raw draw u, for a non-empty seq
choice(seq, u) == seq[(u % Len(seq)) + 1]

\* random.sample(population, k): k draws out of a shrinking pool
\*   j = randbelow(n - i); result[i] = pool[j]; pool[j] = pool[n - i - 1]
RECURSIVE SamplePool(_, _, _, _)
SamplePool(pool, k, i, d) ==
  IF i >= k THEN <<>>
  ELSE LET n == Len(pool)
           j == At(d, i + 1) % (n - i)
       IN <<pool[j + 1]>>
            \o SamplePool([pool EXCEPT ![j + 1] = pool[n - i]], k, i + 1, d)

sample(population, k, d) == SamplePool(population, k, 0, d)

\* The draws of one sample(range(n), n): randbelow(n - i) for i = 0..n-1
SampleDraws(n) == { d \in [1..n -> 0..(IF n > 0 THEN n - 1 ELSE 0)] :
                      \A i \in 1..n : d[i] <= n - i }

\* The draws of k samples in a row
RECURSIVE PopulationDraws(_, _)
PopulationDraws(k, n) ==
  IF k <= 0 THEN { <<>> }
  ELSE { a \o b : a \in PopulationDraws(k - 1, n), b \in SampleDraws(n) }

\* ---------------------------------------------------------- DEAP operators
\* toolbox.indices, toolbox.individual: a fresh Individual, fitness invalid
individual(n, d) ==
  [perm |-> sample([k \in 1..n |-> k - 1], n, d), fit |-> <<>>]

\* tools.cxPartialyMatched: the loop "for i in range(cxpoint1, cxpoint2)",
\* on s = [ind1, ind2, p1, p2]
RECURSIVE PmxLoop(_, _, _)
PmxLoop(s, i, stop) ==
  IF i >= stop THEN s
  ELSE LET temp1 == s.ind1[i + 1]
           temp2 == s.ind2[i + 1]
           a1 == [[s.ind1 EXCEPT ![i + 1] = temp2] EXCEPT ![s.p1[temp2 + 1] + 1] = temp1]
           a2 == [[s.ind2 EXCEPT ![i + 1] = temp1] EXCEPT ![s.p2[temp1 + 1] + 1] = temp2]
           q1 == [[s.p1 EXCEPT ![temp1 + 1] = s.p1[temp2 + 1]]
                        EXCEPT ![temp2 + 1] = s.p1[temp1 + 1]]
           q2 == [[s.p2 EXCEPT ![temp1 + 1] = s.p2[temp2 + 1]]
                        EXCEPT ![temp2 + 1] = s.p2[temp1 + 1]]
       IN PmxLoop([ind1 |-> a1, ind2 |-> a2, p1 |-> q1, p2 |-> q2], i + 1, stop)

\* p1[ind1[i]] = i for i in range(size)
PositionOf(ind) ==
  [v \in 1..Len(ind) |->
     LET ks == {k \in 1..Len(ind) : ind[k] = v - 1}
     IN IF ks = {} THEN 0 ELSE (CHOOSE k \in ks : \A m \in ks : m <= k) - 1]

\* A crossover that exchanges the segment between the cut points and does
\* not repair the values it duplicates (tools.cxTwoPoint).
cxTwoPoint(ind1, ind2, u1, u2) ==
  LET size == IF Len(ind1) < Len(ind2) THEN Len(ind1) ELSE Len(ind2)
      r1 == randint(0, size, u1)
      r2 == randint(0, size - 1, u2)
      cxpoint1 == IF r2 >= r1 THEN r1 ELSE r2
      cxpoint2 == IF r2 >= r1 THEN r2 + 1 ELSE r1
      cut(k) == k > cxpoint1 /\ k <= cxpoint2
  IN <<[k \in DOMAIN ind1 |-> IF cut(k) THEN ind2[k] ELSE ind1[k]],
       [k \in DOMAIN ind2 |-> IF cut(k) THEN ind1[k] ELSE ind2[k]]>>

\* tools.cxPartialyMatched(ind1, ind2) on the raw draws u1, u2 (size >= 1)
cxPartialyMatched(ind1, ind2, u1, u2) ==
  LET size == IF Len(ind1) < Len(ind2) THEN Len(ind1) ELSE Len(ind2)
      r1 == randint(0, size, u1)
      r2 == randint(0, size - 1, u2)
      cxpoint1 == IF r2 >= r1 THEN r1 ELSE r2
      cxpoint2 == IF r2 >= r1 THEN r2 + 1 ELSE r1
      s == PmxLoop([ind1 |-> ind1, ind2 |-> ind2,
                    p1 |-> PositionOf(ind1), p2 |-> PositionOf(ind2)],
                   cxpoint1, cxpoint2)
  IN <<s.ind1, s.ind2>>

\* tools.mutShuffleIndexes: the swap of position i, taken when
\* random.random() < indpb, on the raw draw u (size >= 2)
ShuffleSwap(ind, i, u) ==
  LET r == randint(0, Len(ind) - 2, u)
      swap_indx == IF r >= i THEN r + 1 ELSE r
  IN [[ind EXCEPT ![i + 1] = ind[swap_indx + 1]] EXCEPT ![swap_indx + 1] = ind[i + 1]]

\* tools.selRandom(individuals, k): k times random.choice
selRandom(individuals, k, d) ==
  [a \in 1..(IF k > 0 THEN k ELSE 0) |-> choice(individuals, At(d, a))]

\* HallOfFame.insert(item): a copy, kept best first
HofInsert(hof, item) ==
  LET better == Cardinality({k \in DOMAIN hof : FitnessGt(hof[k].fit, item.fit)})
  IN SubSeq(hof, 1, better) \o <<item>> \o SubSeq(hof, better + 1, Len(hof))

\* A hall of fame that compares the total distance alone.
RECURSIVE HofUpdateByDistance(_, _, _)
HofUpdateByDistance(hof, population, k) ==
  IF k > Len(population) THEN hof
  ELSE HofUpdateByDistance(
         IF Len(hof) = 0 THEN <<population[1]>>
         ELSE IF population[k].fit[1] < hof[1].fit[1] THEN <<population[k]>>
         ELSE hof,
         population, k + 1)

\* A hall of fame that keeps the best of the population it is given, not
\* the best it has seen.
HofUpdateGenerationBest(hof, population, k) ==
  IF population = <<>> THEN hof
  ELSE <<MaxByFitness(Head(population), Tail(population))>>

\* HallOfFame.update(population), from its k-th individual on
RECURSIVE HofUpdate(_, _, _)
HofUpdate(hof, population, k) ==
  IF k > Len(population) THEN hof
  ELSE LET ind == population[k]
           next ==
             IF Len(hof) = 0 /\ HofMaxsize # 0
               THEN HofInsert(hof, population[1])
             ELSE IF FitnessGt(ind.fit, hof[Len(hof)].fit) \/ Len(hof) < HofMaxsize
               THEN IF \E h \in DOMAIN hof : hof[h].perm = ind.perm
                      THEN hof
                      ELSE HofInsert(IF Len(hof) >= HofMaxsize
                                       THEN SubSeq(hof, 1, Len(hof) - 1) ELSE hof,
                                     ind)
             ELSE hof
       IN HofUpdate(next, population, k + 1)

\* The flattened fitness values of a population, as Statistics' key gives them
RECURSIVE FitnessValues(_)
FitnessValues(population) ==
  IF population = <<>> THEN <<>>
  ELSE Head(population).fit \o FitnessValues(Tail(population))

\* Statistics.compile(population): np.mean, np.min, np.max over all the values;
\* the mean is kept as <<sum, count>>
compile(population) ==
  LET vs == FitnessValues(population)
  IN [avg |-> <<SumSeq(vs), Len(vs)>>,
      min |-> CHOOSE m \in Range(vs) : \A x \in Range(vs) : m <= x,
      max |-> CHOOSE m \in Range(vs) : \A x \in Range(vs) : m >= x]

\* =================================================================== state
\* inst: the instance the solvers were constructed with (__init__)
\* args: the arguments of the solve() call
\* run, twin: the two solver objects, each a record of
\*   pc         where solve() stands: idle, populate, evaluate, select, mate,
\*              mutate, shuffle, eval_offspring, return, done
\*   tournsize  the tournament size registered as toolbox.select
\*   rng        the global generator: the seed it was last seeded with and the
\*              number of draws made since, counted from the draws the other
\*              object has made too (only the difference tells the two
\*              generators apart)
\*   pop, offspring, hof, logbook, gen   the locals of solve() and eaSimple
\*   i, g       the loop indices of varAnd and mutShuffleIndexes
\*   err        the exception that ended the call at pc, "" while there is none
\*   prior      history: what the object was constructed or left with
\*   ret        <<the tuple solve() returned>>
\*   evaluated, aspirants, touched   history: every fitness _evaluate_vrp
\*              returned, the last tournament's sample (indices into pop) and
\*              the offspring varAnd has changed
\* routes: <<the last get_vehicle_routes call: its argument and result>>
VARIABLES inst, args, run, twin, routes, tuner

vars == <<inst, args, run, twin, routes, tuner>>

NoSeed == -1
Seeds == {42}
PopSizes == 1..MaxPop
TournSizes == 0..MaxTourn
NGens == -1..MaxGen
CxPbs == {0, 70, 150}
MutPbs == {-10, 20, 100}

\* What an object starts from: just constructed (select registered by
\* _setup_ga, generator as the interpreter seeded it), or after an earlier
\* solve(tournsize=t, seed=s) that made p draws.
JustConstructed == [tournsize |-> SetupTournsize, rng |-> [seed |-> NoSeed, pos |-> 0]]
Leftovers ==
  { JustConstructed, [tournsize |-> 1, rng |-> [seed |-> 7, pos |-> 4]] }

Constructed(left) ==
  [pc |-> "idle", tournsize |-> left.tournsize, rng |-> left.rng,
   pop |-> <<>>, offspring |-> <<>>, hof |-> <<>>, logbook |-> <<>>,
   gen |-> 0, i |-> 0, g |-> 0, err |-> "", ret |-> <<>>, prior |-> left,
   evaluated |-> {}, aspirants |-> <<>>, touched |-> {}]

num_locations == Len(inst.locations)

\* The calls: every population size, tournament size and number of
\* generations with the default probabilities, as far as the population
\* holds at most MaxGenes genes and the generations vary at most MaxWork of
\* them; the other probabilities with one tournament size and at most one
\* generation.
Probabilities == { <<70, 20>>, <<0, 100>>, <<150, -10>> }
ArgSets ==
  { a \in [pop_size : PopSizes, cxpb : CxPbs, mutpb : MutPbs, ngen : NGens,
           tournsize : TournSizes, seed : Seeds] :
      /\ <<a.cxpb, a.mutpb>> \in Probabilities
      /\ a.pop_size * num_locations <= MaxGenes
      /\ a.pop_size * num_locations * a.ngen <= MaxWork
      /\ <<a.cxpb, a.mutpb>> # <<70, 20>> => a.ngen <= 1 /\ a.tournsize = 1 }

\* ------------------------------------------------------------ solve() steps
\* A solve() that does not seed the generator.
SeedRandomSkipped(rng, seed) == rng

\* random.seed(seed)
SeedRandom(rng, seed) == [seed |-> seed, pos |-> 0]

\* toolbox.unregister("select"); toolbox.register("select", ..., tournsize=tournsize)
RegisterSelect(registered, tournsize) == tournsize

Drawn(w, n) == [w.rng EXCEPT !.pos = @ + n]

Raise(w, exc, n) == [w EXCEPT !.err = exc, !.rng = Drawn(w, n)]

\* solve(): seed the generator and register the tournament size
SolveEntry(w, a) ==
  [w EXCEPT !.rng = SeedRandom(w.rng, a.seed),
            !.tournsize = RegisterSelect(w.tournsize, a.tournsize),
            !.pc = "populate"]

\* pop = self.toolbox.population(n=pop_size); hof = tools.HallOfFame(1)
Populate(w, d) ==
  LET n == num_locations
  IN [w EXCEPT !.pop = [k \in 1..args.pop_size |->
                          individual(n, [j \in 1..n |-> At(d, (k - 1) * n + j)])],
               !.hof = <<>>,
               !.rng = Drawn(w, args.pop_size * n),
               !.pc = "evaluate"]

\* invalid_ind = [ind for ind in population if not ind.fitness.valid]
\* ind.fitness.values = toolbox.evaluate(ind) for each of them
EvaluateInvalid(population) ==
  [k \in DOMAIN population |->
     IF valid(population[k].fit) THEN population[k]
     ELSE [population[k] EXCEPT !.fit = _evaluate_vrp(inst, population[k].perm)]]

InvalidInd(population) == {k \in DOMAIN population : ~valid(population[k].fit)}

NewlyEvaluated(population) ==
  { _evaluate_vrp(inst, population[k].perm) : k \in InvalidInd(population) }

\* logbook.record(gen=gen, nevals=len(invalid_ind), **stats.compile(population))
Record(gen, nevals, population) ==
  LET r == compile(population)
  IN [gen |-> gen, nevals |-> nevals, avg |-> r.avg, min |-> r.min, max |-> r.max]

\* for gen in range(1, ngen + 1): the next position
LoopOrReturn(gen) == IF gen <= args.ngen THEN "select" ELSE "return"

\* eaSimple before its loop: evaluate, update the hall of fame, record gen 0
EaBegin(w) ==
  LET population == EvaluateInvalid(w.pop)
  IN [w EXCEPT !.pop = population,
               !.evaluated = @ \cup NewlyEvaluated(w.pop),
               !.hof = HofUpdate(w.hof, population, 1),
               !.logbook = Append(@, Record(0, Cardinality(InvalidInd(w.pop)), population)),
               !.gen = 1,
               !.offspring = <<>>,
               !.pc = LoopOrReturn(1)]

\* varAnd's first line: offspring = [toolbox.clone(ind) for ind in population]
VarAndBegin(w, chosen) ==
  [w EXCEPT !.offspring = chosen,
            !.touched = {},
            !.i = IF Len(chosen) >= 2 THEN 1 ELSE 0,
            !.pc = IF Len(chosen) >= 2 THEN "mate" ELSE "mutate"]

\* A tournament that samples without replacement: random.sample(individuals,
\* tournsize) raises ValueError when the population is smaller.
SelectOneWithoutReplacement(w, d) ==
  LET k == IF w.tournsize > 0 THEN w.tournsize ELSE 0
      idx == sample([j \in 1..Len(w.pop) |-> j], IF k <= Len(w.pop) THEN k ELSE 0, d)
      aspirants == [a \in 1..Len(idx) |-> w.pop[idx[a]]]
  IN IF k = 0 \/ k > Len(w.pop) THEN Raise(w, "ValueError", 0)
     ELSE LET chosen == Append(w.offspring, MaxByFitness(Head(aspirants), Tail(aspirants)))
              v == [w EXCEPT !.offspring = chosen, !.aspirants = idx, !.rng = Drawn(w, k)]
          IN IF Len(chosen) < Len(w.pop) THEN v ELSE VarAndBegin(v, chosen)

\* One turn of selTournament's loop: aspirants = selRandom(individuals,
\* tournsize); chosen.append(max(aspirants, key=fitness)).  max() of no
\* aspirants raises ValueError.
SelectOne(w, d) ==
  LET k == IF w.tournsize > 0 THEN w.tournsize ELSE 0
      idx == selRandom([j \in 1..Len(w.pop) |-> j], w.tournsize, d)
      aspirants == [a \in 1..k |-> w.pop[idx[a]]]
  IN IF k = 0 THEN Raise(w, "ValueError", 0)
     ELSE LET chosen == Append(w.offspring, MaxByFitness(Head(aspirants), Tail(aspirants)))
              v == [w EXCEPT !.offspring = chosen, !.aspirants = idx, !.rng = Drawn(w, k)]
          IN IF Len(chosen) < Len(w.pop) THEN v ELSE VarAndBegin(v, chosen)

\* varAnd: for i in range(1, len(offspring), 2), one turn
AfterMate(w) ==
  IF w.i + 2 < Len(w.offspring)
    THEN [w EXCEPT !.i = @ + 2]
    ELSE [w EXCEPT !.i = 0, !.pc = "mutate"]

MateOne(w, d) ==
  LET a == w.offspring[w.i]
      b == w.offspring[w.i + 1]
      size == IF Len(a.perm) < Len(b.perm) THEN Len(a.perm) ELSE Len(b.perm)
  IN IF At(d, 1) < args.cxpb
       THEN IF size < 1 THEN Raise(w, "ValueError", 2)
            ELSE LET c == cxPartialyMatched(a.perm, b.perm, At(d, 2), At(d, 3))
                 IN AfterMate([w EXCEPT
                      !.aspirants = <<>>,
                      !.offspring = [[@ EXCEPT ![w.i] = [perm |-> c[1], fit |-> <<>>]]
                                        EXCEPT ![w.i + 1] = [perm |-> c[2], fit |-> <<>>]],
                      !.touched = @ \cup {w.i, w.i + 1},
                      !.rng = Drawn(w, 3)])
       ELSE AfterMate([w EXCEPT !.aspirants = <<>>, !.rng = Drawn(w, 1)])

\* varAnd: for i in range(len(offspring)), to the next individual
AfterMutate(w) ==
  IF w.i + 1 < Len(w.offspring)
    THEN [w EXCEPT !.i = @ + 1, !.g = 0, !.pc = "mutate"]
    ELSE [w EXCEPT !.i = 0, !.g = 0, !.pc = "eval_offspring"]

\* A varAnd that keeps the cached fitness of the offspring it mutated.
MutatedKeepsFitness(w) == AfterMutate([w EXCEPT !.touched = @ \cup {w.i + 1}])

\* del offspring[i].fitness.values after toolbox.mutate returned
Mutated(w) ==
  AfterMutate([w EXCEPT !.offspring[w.i + 1].fit = <<>>,
                        !.touched = @ \cup {w.i + 1}])

\* varAnd: if random.random() < mutpb: toolbox.mutate(offspring[i])
MutateGate(w, d) ==
  LET v == [w EXCEPT !.aspirants = <<>>, !.rng = Drawn(w, 1)]
  IN IF At(d, 1) < args.mutpb
       THEN IF Len(w.offspring[w.i + 1].perm) = 0 THEN Mutated(v)
            ELSE [v EXCEPT !.g = 0, !.pc = "shuffle"]
       ELSE AfterMutate(v)

\* One turn of mutShuffleIndexes' loop, at position g of offspring[i]
ShuffleOne(w, d) ==
  LET ind == w.offspring[w.i + 1].perm
      size == Len(ind)
      after(v) == IF w.g + 1 < size THEN [v EXCEPT !.g = @ + 1] ELSE Mutated(v)
  IN IF At(d, 1) < IndPb
       THEN IF size < 2 THEN Raise(w, "ValueError", 1)
            ELSE after([w EXCEPT !.offspring[w.i + 1].perm = ShuffleSwap(ind, w.g, At(d, 2)),
                                 !.rng = Drawn(w, 2)])
       ELSE after([w EXCEPT !.rng = Drawn(w, 1)])

\* A generation that keeps the parents beside the offspring
\* (population.extend(offspring)).
EaGenerationEndKeepsParents(w) ==
  LET offspring == EvaluateInvalid(w.offspring)
  IN [w EXCEPT !.pop = @ \o offspring,
               !.offspring = <<>>,
               !.evaluated = @ \cup NewlyEvaluated(w.offspring),
               !.hof = HofUpdate(w.hof, offspring, 1),
               !.logbook = Append(@, Record(w.gen, Cardinality(InvalidInd(w.offspring)),
                                            offspring)),
               !.gen = @ + 1,
               !.pc = LoopOrReturn(w.gen + 1)]

\* eaSimple's loop after varAnd: evaluate the invalid offspring, update the
\* hall of fame, population[:] = offspring, record the generation
EaGenerationEnd(w) ==
  LET offspring == EvaluateInvalid(w.offspring)
  IN [w EXCEPT !.pop = offspring,
               !.offspring = <<>>,
               !.evaluated = @ \cup NewlyEvaluated(w.offspring),
               !.hof = HofUpdate(w.hof, offspring, 1),
               !.logbook = Append(@, Record(w.gen, Cardinality(InvalidInd(w.offspring)),
                                            offspring)),
               !.gen = @ + 1,
               !.pc = LoopOrReturn(w.gen + 1)]

\* stats = tools.Statistics(...) with avg, min, max registered: the object
\* holds the functions, not the records eaSimple's logbook collects
Statistics == [type |-> "Statistics", fields |-> <<"avg", "min", "max">>]

\* return hof[0], pop, stats, hof
SolveReturn(w) ==
  [w EXCEPT !.ret = <<[best |-> w.hof[1], pop |-> w.pop, stats |-> Statistics,
                       hof |-> w.hof]>>,
            !.pc = "done"]

\* ------------------------------------------------------------------- draws
\* The raw draws the step at w's position may make.
DrawsFor(w) ==
  CASE w.err # "" -> { <<>> }
    [] w.pc = "populate" ->
         PopulationDraws(args.pop_size, num_locations)
    [] w.pc = "select" ->
         [1..(IF w.tournsize > 0 THEN w.tournsize ELSE 0) -> 0..(Len(w.pop) - 1)]
    [] w.pc = "mate" ->
         LET size == Len(w.offspring[w.i].perm)
         IN { <<u, c1, c2>> : u \in RandomGrid, c1 \in 0..size,
                               c2 \in 0..(IF size > 0 THEN size - 1 ELSE 0) }
    [] w.pc = "mutate" -> { <<u>> : u \in RandomGrid }
    [] w.pc = "shuffle" ->
         LET size == Len(w.offspring[w.i + 1].perm)
         IN { <<u, c>> : u \in RandomGrid, c \in 0..(IF size > 1 THEN size - 2 ELSE 0) }
    [] OTHER -> { <<>> }

\* The step solve() takes at w's position, on the raw draws d.
Step(w, d) ==
  CASE w.err # "" -> w
    [] w.pc = "populate" -> Populate(w, d)
    [] w.pc = "evaluate" -> EaBegin(w)
    [] w.pc = "select" -> SelectOne(w, d)
    [] w.pc = "mate" -> MateOne(w, d)
    [] w.pc = "mutate" -> MutateGate(w, d)
    [] w.pc = "shuffle" -> ShuffleOne(w, d)
    [] w.pc = "eval_offspring" -> EaGenerationEnd(w)
    [] w.pc = "return" -> SolveReturn(w)
    [] OTHER -> w

\* w with its draws counted from those the other object o has made too
Relative(w, o) ==
  [w EXCEPT !.rng.pos = @ - (IF o.rng.pos < @ THEN o.rng.pos ELSE @)]

\* Both objects take their step; generators in the same state give the same
\* draws.
Lockstep(d) ==
  /\ \E e \in (IF twin.rng = run.rng THEN {d} ELSE DrawsFor(twin)) :
       LET r == Step(run, d)
           t == Step(twin, e)
       IN run' = Relative(r, t) /\ twin' = Relative(t, r)
  /\ UNCHANGED <<inst, args, routes, tuner>>

\* ------------------------------------------------------------------- tuner
\* float("inf"): above every distance
Infinity == 1000000
\* None, and a value that may be None as a sequence of no or one element
None == <<>>

\* VRPTuner.__init__: the tuner before a tuning method is called
NoTuning ==
  [pc |-> "idle", method |-> "", n_trials |-> 0, combinations |-> <<>>,
   param_ranges |-> <<>>, ngen |-> 0, seed_base |-> 0, trial |-> 0,
   best_params |-> None, best_individual |-> None, best_distance |-> Infinity,
   all_results |-> <<>>, seeds |-> <<>>, ret |-> <<>>]

\* ----------------------------------------------------------------- actions
\* Two objects just constructed.
Init ==
  /\ inst \in Instances
  /\ args = <<>>
  /\ run = Constructed(JustConstructed)
  /\ twin = Constructed(JustConstructed)
  /\ routes = <<>>
  /\ tuner = NoTuning

Running(pc) == run.pc = pc /\ run.err = ""

\* solve(**a) enters on both objects
SolveCall(a) ==
  /\ args' = a
  /\ run' = Relative(SolveEntry(run, a), SolveEntry(twin, a))
  /\ twin' = Relative(SolveEntry(twin, a), SolveEntry(run, a))
  /\ UNCHANGED <<inst, routes, tuner>>

Solve == Running("idle") /\ \E a \in ArgSets : SolveCall(a)

CreatePopulation == Running("populate") /\ \E d \in DrawsFor(run) : Lockstep(d)

EvaluateInitial == Running("evaluate") /\ Lockstep(<<>>)

Select == Running("select") /\ \E d \in DrawsFor(run) : Lockstep(d)

Mate == Running("mate") /\ \E d \in DrawsFor(run) : Lockstep(d)

Mutate == Running("mutate") /\ \E d \in DrawsFor(run) : Lockstep(d)

Shuffle == Running("shuffle") /\ \E d \in DrawsFor(run) : Lockstep(d)

EvaluateOffspring == Running("eval_offspring") /\ Lockstep(<<>>)

Return == Running("return") /\ Lockstep(<<>>)

\* get_vehicle_routes on the best individual or on the identity permutation
GetVehicleRoutes ==
  /\ Running("done")
  /\ routes = <<>>
  /\ \E ind \in {run.ret[1].best.perm, [k \in 1..num_locations |-> k - 1]} :
       routes' = <<[individual |-> ind, routes |-> get_vehicle_routes(inst, ind)]>>
  /\ UNCHANGED <<inst, args, run, twin, tuner>>

Next ==
  \/ Solve
  \/ CreatePopulation
  \/ EvaluateInitial
  \/ Select
  \/ Mate
  \/ Mutate
  \/ Shuffle
  \/ EvaluateOffspring
  \/ Return
  \/ GetVehicleRoutes

Spec == Init /\ [][Next]_vars

\* The same call on an object just constructed (run) and on one that earlier
\* calls have used (twin).
InitRepro ==
  /\ inst \in Instances
  /\ args = <<>>
  /\ \E b \in Leftovers :
       /\ run = Relative(Constructed(JustConstructed), Constructed(b))
       /\ twin = Relative(Constructed(b), Constructed(JustConstructed))
  /\ routes = <<>>
  /\ tuner = NoTuning

ReproArgs == { a \in ArgSets : a.ngen \in {0, 1} /\ a.tournsize >= 1 /\ a.cxpb = 70 }

SolveAgain == Running("idle") /\ \E a \in ReproArgs : SolveCall(a)

NextRepro ==
  \/ SolveAgain
  \/ CreatePopulation
  \/ EvaluateInitial
  \/ Select
  \/ Mate
  \/ Mutate
  \/ Shuffle
  \/ EvaluateOffspring
  \/ Return

SpecRepro == InitRepro /\ [][NextRepro]_vars

\* ------------------------------------------------------- tuning (tuning.py)
MaxTrials == 2
MaxTuningWork == 2
SeedBases == {5}
TuningNGens == {0, 1}

\* The largest element of a sequence of numbers (0 of none)
RECURSIVE MaxOf(_)
MaxOf(s) ==
  IF s = <<>> THEN 0
  ELSE LET m == MaxOf(Tail(s)) IN IF Head(s) > m THEN Head(s) ELSE m

\* The tuning calls whose trials hold at most MaxGenes genes and vary at
\* most MaxTuningWork of them each
WithinTuningWork(ngen, pop_size) ==
  /\ pop_size * num_locations <= MaxGenes
  /\ ngen * pop_size * num_locations <= MaxTuningWork

\* param_ranges of random_search_tuning: (low, high) per parameter, the
\* probabilities in percent
ParamRanges ==
  { [pop_size |-> <<1, hi>>, cxpb |-> <<70, 70>>, mutpb |-> <<20, 20>>,
     tournsize |-> <<1, ht>>] : hi \in 1..MaxPop, ht \in 1..MaxTourn }

\* param_grid of grid_search_tuning: the lists per parameter, in the order
\* of its keys
ParamGrids ==
  { << ps, <<70>>, <<20>>, ts >> :
      ps \in {<<>>, <<1>>, <<2, 1>>, <<1, 2>>}, ts \in {<<1>>, <<1, 2>>, <<2, 1>>} }

\* itertools.product(*param_values): the last list varies fastest
RECURSIVE product(_)
product(lists) ==
  IF lists = <<>> THEN << <<>> >>
  ELSE LET h == Head(lists)
           rest == product(Tail(lists))
       IN [k \in 1..(Len(h) * Len(rest)) |->
             <<h[((k - 1) \div Len(rest)) + 1]>> \o rest[((k - 1) % Len(rest)) + 1]]

\* params = dict(zip(param_names, combo))
ParamsOf(combo) ==
  [pop_size |-> combo[1], cxpb |-> combo[2], mutpb |-> combo[3], tournsize |-> combo[4]]

\* range(n_trials) / enumerate(combinations): the number of trials
Trials(t) == IF t.method = "grid" THEN Len(t.combinations) ELSE t.n_trials

\* An update that also takes a trial as good as the best so far.
IsBetterOrEqual(distance, best_distance) == distance <= best_distance

\* if distance < best_distance
IsBetter(distance, best_distance) == distance < best_distance

\* result = {'trial': trial + 1, **params, 'distance': distance,
\*           'individual': individual}
Result(trial, params, distance, ind) ==
  [trial |-> trial + 1, pop_size |-> params.pop_size, cxpb |-> params.cxpb,
   mutpb |-> params.mutpb, tournsize |-> params.tournsize,
   distance |-> distance, individual |-> ind]

\* self.solver.solve(..., ngen=ngen, seed=seed_base + trial, verbose=False)
\* on the solver the earlier trials have used
TrialCall(params) ==
  LET a == [pop_size |-> params.pop_size, cxpb |-> params.cxpb, mutpb |-> params.mutpb,
            ngen |-> tuner.ngen, tournsize |-> params.tournsize,
            seed |-> tuner.seed_base + tuner.trial]
      left == [tournsize |-> run.tournsize, rng |-> run.rng]
      entered == SolveEntry(Constructed(left), a)
  IN /\ args' = a
     /\ run' = entered
     /\ twin' = entered
     /\ tuner' = [tuner EXCEPT !.pc = "solving", !.seeds = Append(@, a.seed)]
     /\ UNCHANGED <<inst, routes>>

\* random_search_tuning(n_trials, param_ranges, ngen, seed_base) up to its loop
RandomSearchTuning ==
  /\ tuner.pc = "idle"
  /\ \E n \in 0..MaxTrials, r \in ParamRanges, g \in TuningNGens, b \in SeedBases :
       /\ WithinTuningWork(g, r.pop_size[2])
       /\ tuner' = [NoTuning EXCEPT !.pc = "loop", !.method = "random", !.n_trials = n,
                                    !.param_ranges = <<r>>, !.ngen = g, !.seed_base = b]
  /\ UNCHANGED <<inst, args, run, twin, routes>>

\* grid_search_tuning(param_grid, ngen, seed_base) up to its loop
GridSearchTuning ==
  /\ tuner.pc = "idle"
  /\ \E grid \in ParamGrids, g \in TuningNGens, b \in SeedBases :
       /\ Len(product(grid)) <= MaxTrials
       /\ WithinTuningWork(g, MaxOf(grid[1]))
       /\ tuner' = [NoTuning EXCEPT !.pc = "loop", !.method = "grid",
                                    !.combinations = product(grid),
                                    !.ngen = g, !.seed_base = b]
  /\ UNCHANGED <<inst, args, run, twin, routes>>

\* One turn of random_search_tuning's loop up to the call of solve(): the
\* parameters are random.randint and random.uniform of their ranges
RandomTrial ==
  /\ tuner.pc = "loop" /\ tuner.method = "random" /\ tuner.trial < Trials(tuner)
  /\ LET r == tuner.param_ranges[1]
     IN \E ps \in r.pop_size[1]..r.pop_size[2], cx \in r.cxpb[1]..r.cxpb[2],
           mu \in r.mutpb[1]..r.mutpb[2], ts \in r.tournsize[1]..r.tournsize[2] :
          TrialCall([pop_size |-> ps, cxpb |-> cx, mutpb |-> mu, tournsize |-> ts])

\* One turn of grid_search_tuning's loop up to the call of solve()
GridTrial ==
  /\ tuner.pc = "loop" /\ tuner.method = "grid" /\ tuner.trial < Trials(tuner)
  /\ TrialCall(ParamsOf(tuner.combinations[tuner.trial + 1]))

\* The rest of the turn, after solve() returned: record the result, update
\* the best
TrialRecord ==
  /\ tuner.pc = "solving"
  /\ Running("done")
  /\ LET ind == run.ret[1].best
         distance == ind.fit[1]
         params == [pop_size |-> args.pop_size, cxpb |-> args.cxpb, mutpb |-> args.mutpb,
                    tournsize |-> args.tournsize]
         better == IsBetter(distance, tuner.best_distance)
     IN tuner' = [tuner EXCEPT
          !.pc = "loop",
          !.all_results = Append(@, Result(tuner.trial, params, distance, ind)),
          !.best_distance = IF better THEN distance ELSE @,
          !.best_individual = IF better THEN <<ind>> ELSE @,
          !.best_params = IF better THEN <<params>> ELSE @,
          !.trial = @ + 1]
  /\ UNCHANGED <<inst, args, run, twin, routes>>

\* return best_params, best_individual, best_distance, all_results
TuningReturn ==
  /\ tuner.pc = "loop" /\ tuner.trial >= Trials(tuner)
  /\ tuner' = [tuner EXCEPT !.pc = "done",
                 !.ret = <<[best_params |-> tuner.best_params,
                            best_individual |-> tuner.best_individual,
                            best_distance |-> tuner.best_distance,
                            all_results |-> tuner.all_results]>>]
  /\ UNCHANGED <<inst, args, run, twin, routes>>

NextTuning ==
  \/ RandomSearchTuning
  \/ GridSearchTuning
  \/ RandomTrial
  \/ GridTrial
  \/ TrialRecord
  \/ TuningReturn
  \/ CreatePopulation
  \/ EvaluateInitial
  \/ Select
  \/ Mate
  \/ Mutate
  \/ Shuffle
  \/ EvaluateOffspring
  \/ Return

SpecTuning == Init /\ [][NextTuning]_vars

\* ================================================================== claims
\* The order of the specification on Fitness: total_distance first, then
\* balance_penalty.
LexLe(f, g) == f[1] < g[1] \/ (f[1] = g[1] /\ f[2] <= g[2])

\* A generation boundary: before the first tournament of a generation, or
\* after the last generation.
AtBoundary(w) ==
  w.err = "" /\ (w.pc \in {"return", "done"} \/ (w.pc = "select" /\ w.offspring = <<>>))

Returned(w) == IF w.ret = <<>> THEN {} ELSE {w.ret[1].best} \cup Range(w.ret[1].pop) \cup Range(w.ret[1].hof)

IsPermutation(perm) ==
  /\ Len(perm) = num_locations
  /\ \A v \in 0..(num_locations - 1) : Cardinality({k \in DOMAIN perm : perm[k] = v}) = 1

\* C1: in every state of a solve() run every Individual (of the population,
\* of the offspring being varied, of the hall of fame, of what solve()
\* returned) holds each index of 0..num_locations-1 exactly once.
PermutationInvariant ==
  \A ind \in Range(run.pop) \cup Range(run.offspring) \cup Range(run.hof) \cup Returned(run) :
    IsPermutation(ind.perm)

\* C1's case: crossover and the mutation loop have both changed offspring of
\* three locations or more, and one of them is none of the parents.
PermutationWitness ==
  /\ Running("eval_offspring")
  /\ num_locations >= 3
  /\ run.touched = {1, 2}
  /\ args.cxpb = 70
  /\ \A k \in DOMAIN run.pop : run.pop[k].perm # run.offspring[1].perm

\* The positions of a permutation of n indices that go to vehicle i of v.
RoutePositions(n, v, i) == {j \in 0..(n - 1) : j % v = i}
KthPosition(J, k) == CHOOSE j \in J : Cardinality({x \in J : x < j}) = k - 1

\* C2: get_vehicle_routes returns num_vehicles routes, and route i is the
\* depot, the locations at the positions j with j mod num_vehicles = i in
\* increasing j, and the depot.
RoutesByPosition ==
  routes # <<>> =>
    LET ind == routes[1].individual
        r == routes[1].routes
    IN /\ Len(r) = inst.num_vehicles
       /\ \A i \in 0..(inst.num_vehicles - 1) :
            LET J == RoutePositions(Len(ind), inst.num_vehicles, i)
                route == r[i + 1]
            IN /\ Len(route) = Cardinality(J) + 2
               /\ route[1] = inst.depot
               /\ route[Len(route)] = inst.depot
               /\ \A k \in 1..Cardinality(J) :
                    route[k + 1] = inst.locations[ind[KthPosition(J, k) + 1] + 1]

\* C2's case: two vehicles, and an individual whose first index is 1: the
\* first vehicle gets location 1, which a decoder by value gives the second.
RoutesWitness ==
  /\ routes # <<>>
  /\ inst.num_vehicles = 2
  /\ Len(routes[1].individual) >= 3
  /\ routes[1].individual[1] = 1
  /\ routes[1].routes[1][2] = inst.locations[2]
  /\ Len(routes[1].routes[2]) = 3

\* C3: at every generation boundary and at termination the hall of fame
\* holds one evaluated individual at least as good, in the lexicographic
\* order, as every individual evaluated so far, and solve() returns it as
\* best.
HallOfFameHoldsBest ==
  /\ (AtBoundary(run) /\ run.logbook # <<>>) =>
       /\ Len(run.hof) = 1
       /\ run.hof[1].fit \in run.evaluated
       /\ run.hof[1].fit = _evaluate_vrp(inst, run.hof[1].perm)
       /\ \A f \in run.evaluated : LexLe(run.hof[1].fit, f)
  /\ Running("done") => run.ret[1].best = run.hof[1] /\ run.ret[1].hof = run.hof

\* C3's case: the best returned is no member of the final population, and
\* beats an evaluated individual of the same total distance on balance.
HallOfFameWitness ==
  /\ Running("done")
  /\ args.ngen >= 1
  /\ \A k \in DOMAIN run.ret[1].pop : run.ret[1].pop[k].perm # run.ret[1].best.perm
  /\ \E f \in run.evaluated : f[1] = run.ret[1].best.fit[1] /\ f[2] > run.ret[1].best.fit[2]

\* C4: the fitness of the hall of fame never gets worse from one step of a
\* run to the next, and selection, crossover and mutation leave the hall of
\* fame as it is.
HallOfFameMonotone ==
  [][ /\ run.hof # <<>> =>
           run'.hof # <<>> /\ LexLe(run'.hof[1].fit, run.hof[1].fit)
      /\ run.pc \in {"select", "mate", "mutate", "shuffle"} => run'.hof = run.hof ]_vars

\* C4's case: a run of one individual whose hall of fame, after a generation
\* of variation, is strictly better than the initial individual was.
HallOfFameMonotoneWitness ==
  /\ Running("return")
  /\ args.pop_size = 1
  /\ Len(run.logbook) = 2
  /\ run.touched # {}
  /\ run.hof[1].fit[1] < run.logbook[1].max

\* C5: the same call on a solver just constructed and on one that earlier
\* calls have used returns the same best individual, best fitness, final
\* population and hall of fame.
Reproducible ==
  Running("done") => twin.pc = "done" /\ twin.err = "" /\ twin.ret = run.ret

\* C5's case: a call of one generation or more on two or more individuals,
\* after an earlier call with another seed and tournament size.
ReproducibleWitness ==
  /\ Running("done")
  /\ twin.pc = "done"
  /\ twin.prior # run.prior
  /\ twin.prior.tournsize # args.tournsize
  /\ args.ngen >= 1
  /\ args.pop_size >= 2
  /\ num_locations >= 3
  /\ run.touched # {}
  /\ twin.ret = run.ret

InvalidInput ==
  /\ args # <<>>
  /\ \/ args.cxpb < 0 \/ args.cxpb > 100
     \/ args.mutpb < 0 \/ args.mutpb > 100
     \/ args.ngen < 0
     \/ inst.num_vehicles < 1
     \/ num_locations = 0

\* C7: invalid input is refused at solve() entry, before a population is
\* created, an individual evaluated or a generation step run.
FailsFast ==
  InvalidInput =>
    /\ run.pc \in {"idle", "populate"}
    /\ run.pop = <<>>
    /\ run.evaluated = {}
    /\ run.logbook = <<>>

\* C8: the statistics solve() returns are the history: one record of avg,
\* min and max per generation, for the generations 0..ngen in order.
StatsHistory ==
  Running("done") =>
    LET stats == run.ret[1].stats
    IN /\ stats.type = "Logbook"
       /\ Len(stats.records) = args.ngen + 1
       /\ \A k \in DOMAIN stats.records :
            /\ stats.records[k].gen = k - 1
            /\ {"avg", "min", "max"} \subseteq DOMAIN stats.records[k]

\* C9: a tournament samples tournsize individuals of the population, with
\* replacement, and returns one of the best of them; pop_size tournaments
\* fill the mating pool; with pop_size = 1 and tournsize = 1 the tournament
\* returns the sole individual and the generation step raises no error.
TournamentSelection ==
  /\ run.aspirants # <<>> =>
       LET chosen == run.offspring[Len(run.offspring)]
           sampled == { run.pop[run.aspirants[a]] : a \in DOMAIN run.aspirants }
       IN /\ Len(run.aspirants) = args.tournsize
          /\ chosen \in sampled
          /\ \A o \in sampled : LexLe(chosen.fit, o.fit)
  /\ run.pc \in {"mate", "mutate", "shuffle", "eval_offspring"} =>
       Len(run.offspring) = args.pop_size
  /\ (args # <<>> /\ args.pop_size = 1 /\ args.tournsize = 1) =>
       /\ run.err = ""
       /\ run.aspirants # <<>> => run.offspring = run.pop

\* C10: at every generation boundary every individual of the population has
\* a valid fitness, that of its permutation; before the offspring are
\* evaluated those varAnd has touched have no fitness and the others the
\* fitness of their permutation; and each generation evaluates the touched
\* offspring only (the initial evaluation, everyone).
FitnessCacheConsistent ==
  /\ (AtBoundary(run) /\ run.logbook # <<>>) =>
       /\ \A k \in DOMAIN run.pop :
            /\ valid(run.pop[k].fit)
            /\ run.pop[k].fit = _evaluate_vrp(inst, run.pop[k].perm)
       /\ run.logbook[1].nevals = args.pop_size
       /\ Len(run.logbook) >= 2 =>
            run.logbook[Len(run.logbook)].nevals = Cardinality(run.touched)
  /\ Running("eval_offspring") =>
       \A k \in DOMAIN run.offspring :
         IF k \in run.touched
           THEN ~valid(run.offspring[k].fit)
           ELSE run.offspring[k].fit = _evaluate_vrp(inst, run.offspring[k].perm)

\* C10's case: a generation in which mutation changed one offspring of two
\* and left the other with its cached fitness.
FitnessCacheWitness ==
  /\ Running("return")
  /\ args.ngen >= 1
  /\ Cardinality(run.touched) = 1
  /\ Len(run.pop) = 2
  /\ run.logbook[Len(run.logbook)].nevals = 1

\* The generation steps a run has completed: eaSimple records one line per
\* generation after the line of the initial evaluation.
GenerationSteps(w) == Len(w.logbook) - 1

\* C11: from its creation on the population holds pop_size individuals; a
\* generation step replaces it, position by position, by the pop_size
\* offspring and by nothing else; and the run is at its end exactly when
\* ngen generation steps are done (none when ngen is not positive).
PopulationSizeFixed ==
  /\ [](/\ (args # <<>> /\ run.pc \notin {"idle", "populate"}) =>
              Len(run.pop) = args.pop_size
        /\ run.pc \in {"mate", "mutate", "shuffle", "eval_offspring"} =>
              /\ Len(run.offspring) = args.pop_size
              /\ GenerationSteps(run) < args.ngen
        /\ run.pc \in {"return", "done"} =>
              GenerationSteps(run) = (IF args.ngen > 0 THEN args.ngen ELSE 0)
        /\ Running("done") => Len(run.ret[1].pop) = args.pop_size)
  /\ [][Running("eval_offspring") =>
          /\ GenerationSteps(run') = GenerationSteps(run) + 1
          /\ Len(run'.pop) = Len(run.offspring)
          /\ \A k \in DOMAIN run.offspring : run'.pop[k].perm = run.offspring[k].perm]_vars

\* C11's case: a run of two individuals has replaced its population and
\* returned after its ngen >= 1 generations, the last of which crossover or
\* mutation changed.
PopulationSizeWitness ==
  /\ Running("done")
  /\ args.pop_size = 2
  /\ args.ngen >= 1
  /\ GenerationSteps(run) = args.ngen
  /\ run.touched # {}
  /\ Len(run.ret[1].pop) = 2

\* The least 'distance' of a list of results, the first trial that has it,
\* and the parameters a result records.
MinDistance(results) ==
  CHOOSE d \in { results[k].distance : k \in DOMAIN results } :
    \A k \in DOMAIN results : d <= results[k].distance
EarliestBest(results) ==
  CHOOSE k \in DOMAIN results :
    /\ results[k].distance = MinDistance(results)
    /\ \A j \in 1..(k - 1) : results[j].distance # MinDistance(results)
ParamsIn(result) ==
  [pop_size |-> result.pop_size, cxpb |-> result.cxpb, mutpb |-> result.mutpb,
   tournsize |-> result.tournsize]

\* C12: in both tuning methods the k-th trial calls solve() with the seed
\* seed_base + k - 1, so that no two trials share a seed; all_results holds
\* one entry per trial done, in trial order, with the distance of the best
\* individual solve() returned (and, in a grid search, the parameters of the
\* k-th combination); and what is returned is all_results with one entry per
\* trial, its least distance, and the parameters and individual of the
\* earliest trial that has it, or None, None and infinity when there was no
\* trial.
TuningBookkeeping ==
  LET results == tuner.all_results
  IN /\ \A k \in DOMAIN tuner.seeds : tuner.seeds[k] = tuner.seed_base + (k - 1)
     /\ \A j, k \in DOMAIN tuner.seeds : j # k => tuner.seeds[j] # tuner.seeds[k]
     /\ tuner.pc = "solving" =>
          /\ Len(tuner.seeds) = tuner.trial + 1
          /\ args.seed = tuner.seed_base + tuner.trial
          /\ args.ngen = tuner.ngen
     /\ tuner.pc \in {"loop", "done"} => Len(tuner.seeds) = tuner.trial
     /\ Len(results) = tuner.trial
     /\ \A k \in DOMAIN results :
          /\ results[k].trial = k
          /\ results[k].distance = results[k].individual.fit[1]
          /\ tuner.method = "grid" =>
               /\ results[k].pop_size = tuner.combinations[k][1]
               /\ results[k].cxpb = tuner.combinations[k][2]
               /\ results[k].mutpb = tuner.combinations[k][3]
               /\ results[k].tournsize = tuner.combinations[k][4]
     /\ tuner.pc = "done" =>
          LET r == tuner.ret[1]
          IN /\ r.all_results = results
             /\ Len(r.all_results) = Trials(tuner)
             /\ results = <<>> =>
                  /\ r.best_params = None
                  /\ r.best_individual = None
                  /\ r.best_distance = Infinity
             /\ results # <<>> =>
                  /\ r.best_distance = MinDistance(results)
                  /\ r.best_params = <<ParamsIn(results[EarliestBest(results)])>>
                  /\ r.best_individual = <<results[EarliestBest(results)].individual>>

\* C12's case: a random search of two trials with different parameters and
\* the same distance has returned the parameters of the first.
TuningWitness ==
  /\ tuner.pc = "done"
  /\ tuner.method = "random"
  /\ Len(tuner.all_results) = 2
  /\ tuner.all_results[1].distance = tuner.all_results[2].distance
  /\ ParamsIn(tuner.all_results[1]) # ParamsIn(tuner.all_results[2])
  /\ tuner.ret[1].best_params = <<ParamsIn(tuner.all_results[1])>>
  /\ tuner.seeds = <<tuner.seed_base, tuner.seed_base + 1>>

====
